---- MODULE Spec2Model ----
(***************************************************************************)
(* A model of the Bitcask key/value store of src/bitcask.cc: the on-disk   *)
(* record format (byte for byte), the append path through the buffered    *)
(* output stream, the KeyDir, and its reconstruction by Open from the      *)
(* segment files of the directory.                                         *)
(*                                                                         *)
(* Files are sequences of bytes (0..255), keys and values are sequences   *)
(* of bytes, a path is <<stem, extension>>.  One store is alive at a time *)
(* (sessions run one after the other on the same directory).              *)
(***************************************************************************)
EXTENDS Integers, Sequences, FiniteSets, TLC

\* ------------------------------------------------------------------ bounds
\* Number of calls of Open over the life of the directory.
MaxOpens == 3
\* Number of records appended over the life of the directory.
MaxRecs == 3

\* --------------------------------------------------------------- constants
\* "rdbc_tombstone" in ASCII.
kTombstoneValue == <<114, 100, 98, 99, 95, 116, 111, 109, 98, 115, 116, 111, 110, 101>>
kCaskSuffix == ".cask"
\* sizeof(target) in ReadToTarget/WriteToTarget: target is a pointer (LP64).
SizeofPointer == 8
\* sizeof(int64_t), the type of CaskEntry::timestamp.
SizeofTimestamp == 8
\* sizeof(size_t), the type of CaskEntry::key_sz and value_sz (LP64).
SizeofSizeT == 8

\* ------------------------------------------------------------------ inputs
\* The keys and values the callers pass: the empty key, a one-byte key, the
\* empty value and a one-byte value.
Keys == {<<>>, <<107>>}
Values == {<<>>, <<118>>}
\* Bytes an uninitialized buffer may hold.
Garbage == {0, 255}
\* The path of a store that was never opened.
NoPath == <<0, "">>

VARIABLES
  files,      \* the directory: path -> bytes on disk
  clock,      \* the last reading of the system clock
  open,       \* TRUE while a Bitcask object is alive
  db_path_,   \* Bitcask::db_path_
  f_,         \* Bitcask::f_ : [pos: put position, buf: bytes not yet on disk]
  key_dir_,   \* Bitcask::key_dir_ : key -> KeyDirEntry
  last,       \* the last call and what it returned
  sessions    \* history: per Open, [path, recovered, ops, view, torn]

vars == <<files, clock, open, db_path_, f_, key_dir_, last, sessions>>

\* ----------------------------------------------------------------- helpers
Max(a, b) == IF a >= b THEN a ELSE b
Min(a, b) == IF a <= b THEN a ELSE b

\* The object representation of an unsigned integer, little-endian, w bytes.
RECURSIVE ToBytes(_, _)
ToBytes(n, w) == IF w = 0 THEN <<>> ELSE <<n % 256>> \o ToBytes(n \div 256, w - 1)

\* The unsigned integer whose little-endian representation starts with b (the
\* bytes of the object that b does not cover are zero).
RECURSIVE FromBytes(_)
FromBytes(b) == IF Len(b) = 0 THEN 0 ELSE b[1] + 256 * FromBytes(Tail(b))

EmptyMap == [x \in {} |-> 0]
MapSet(m, k, v) == [x \in (DOMAIN m) \cup {k} |-> IF x = k THEN v ELSE m[x]]
MapErase(m, k) == [x \in (DOMAIN m) \ {k} |-> m[x]]

\* All orders in which the elements of S can be enumerated.
RECURSIVE Orders(_)
Orders(S) ==
  IF S = {} THEN {<<>>}
  ELSE UNION {{<<x>> \o s : s \in Orders(S \ {x})} : x \in S}

\* NowToMicros(): what a reading of the system clock can return. The clock does
\* not go back between two readings, two readings may fall in the same
\* microsecond, and the epoch itself is never read.
NowToMicros == {clock, clock + 1} \ {0}

\* fs::path::extension()
Extension(path) == path[2]

\* ------------------------------------------------------------ record codec
\* CaskEntry::ValueOffset(): the offset of the value from the start of the record.
ValueOffset(e) == SizeofTimestamp + SizeofSizeT + SizeofSizeT + Len(e.key)

\* WriteToTarget: writes sizeof(target) bytes of the object's representation.
WriteToTarget(n) == ToBytes(n, SizeofPointer)

\* operator<<(std::ostream&, CaskEntry&): the bytes of one record.
Insert(e) ==
  WriteToTarget(e.timestamp) \o WriteToTarget(e.key_sz) \o WriteToTarget(e.value_sz)
    \o e.key \o e.value

\* std::istream::read on the stream s = [pos, ok] over `bytes`: a stream that has
\* failed reads nothing; a short read stores what is there and fails the stream.
StreamRead(bytes, s, n) ==
  IF ~s.ok
    THEN [data |-> <<>>, s |-> s]
    ELSE LET avail == Min(n, Len(bytes) - s.pos)
         IN  [data |-> SubSeq(bytes, s.pos + 1, s.pos + avail),
              s |-> [pos |-> s.pos + avail, ok |-> avail = n]]

\* operator>>(std::istream&, CaskEntry&) from offset pos: the five reads in a
\* row; ok is the state of the stream after the last one, next its position.
Extract(bytes, pos) ==
  LET r1 == StreamRead(bytes, [pos |-> pos, ok |-> TRUE], SizeofPointer)
      r2 == StreamRead(bytes, r1.s, SizeofPointer)
      r3 == StreamRead(bytes, r2.s, SizeofPointer)
      key_sz == FromBytes(r2.data)
      value_sz == FromBytes(r3.data)
      r4 == StreamRead(bytes, r3.s, key_sz)
      r5 == StreamRead(bytes, r4.s, value_sz)
  IN  [ok |-> r5.s.ok, timestamp |-> FromBytes(r1.data), key_sz |-> key_sz,
       value_sz |-> value_sz, key |-> r4.data, value |-> r5.data, next |-> r5.s.pos]

\* ------------------------------------------------------------ output stream
\* std::ostream::write on f = [pos, buf]: the bytes go to the buffer.
StreamWrite(f, data) == [pos |-> f.pos + Len(data), buf |-> f.buf \o data]

\* `data` written into `bytes` at offset pos (the file is not opened in append mode).
WriteAt(bytes, pos, data) ==
  [i \in 1..Max(Len(bytes), pos + Len(data)) |->
     IF i > pos /\ i <= pos + Len(data) THEN data[i - pos]
     ELSE IF i <= Len(bytes) THEN bytes[i] ELSE 0]

\* Flush with the flush left out: the bytes stay in the buffer.
FlushNothing(fl, path, f) == [files |-> fl, f |-> f]

\* Flush with the put position left at the start of the file: the bytes of
\* each write go over those of the write before.
FlushRewound(fl, path, f) ==
  [files |-> IF Len(f.buf) = 0 THEN fl
             ELSE [fl EXCEPT ![path] = WriteAt(@, 0, f.buf)],
   f |-> [f EXCEPT !.buf = <<>>]]

\* std::ostream::flush of the stream f open on `path`: the buffered bytes go to
\* the file, at the offset they were written at.
Flush(fl, path, f) ==
  [files |-> IF Len(f.buf) = 0 THEN fl
             ELSE [fl EXCEPT ![path] = WriteAt(@, f.pos - Len(f.buf), f.buf)],
   f |-> [f EXCEPT !.buf = <<>>]]

\* ---------------------------------------------------------------- recovery
\* FoldEntry without the pruning of tombstoned keys: the marker is stored as a value.
FoldEntryNoPrune(kd, path, entry_start, e) ==
  IF e.key \in DOMAIN kd /\ kd[e.key].timestamp >= e.timestamp
    THEN kd
    ELSE MapSet(kd, e.key, [file_id |-> path, value_sz |-> e.value_sz,
                            value_pos |-> entry_start + ValueOffset(e),
                            timestamp |-> e.timestamp])

\* One turn of the while loop of Open: the record `e` read at entry_start of `path`.
FoldEntry(kd, path, entry_start, e) ==
  IF e.key \in DOMAIN kd /\ kd[e.key].timestamp >= e.timestamp
    THEN kd
    ELSE IF e.value = kTombstoneValue
      THEN MapErase(kd, e.key)
      ELSE MapSet(kd, e.key, [file_id |-> path, value_sz |-> e.value_sz,
                              value_pos |-> entry_start + ValueOffset(e),
                              timestamp |-> e.timestamp])

\* ReplayFile with the state of the stream tested after the three header
\* fields only: a record whose key or value is cut short is folded as well.
RECURSIVE ReplayFileHeaderOnly(_, _, _, _)
ReplayFileHeaderOnly(kd, path, bytes, pos) ==
  LET e == Extract(bytes, pos)
  IN  IF Len(bytes) - pos < 3 * SizeofPointer THEN kd
      ELSE ReplayFileHeaderOnly(FoldEntry(kd, path, pos, e), path, bytes, e.next)

\* The while loop of Open over one file, from offset pos.
RECURSIVE ReplayFile(_, _, _, _)
ReplayFile(kd, path, bytes, pos) ==
  LET e == Extract(bytes, pos)
  IN  IF ~e.ok THEN kd
      ELSE ReplayFile(FoldEntry(kd, path, pos, e), path, bytes, e.next)

\* The for loop of Open over the directory entries in the order `order`.
RECURSIVE Recover(_, _, _, _)
Recover(kd, fl, order, i) ==
  IF i > Len(order) THEN kd
  ELSE IF Extension(order[i]) # kCaskSuffix
    THEN Recover(kd, fl, order, i + 1)
    ELSE Recover(ReplayFile(kd, order[i], fl[order[i]], 0), fl, order, i + 1)

\* The records the while loop of Open reads from `bytes`, in file order.
RECURSIVE Scan(_, _)
Scan(bytes, pos) ==
  LET e == Extract(bytes, pos)
  IN  IF ~e.ok THEN <<>>
      ELSE <<[timestamp |-> e.timestamp, key |-> e.key, value |-> e.value]>>
             \o Scan(bytes, e.next)

\* --------------------------------------------------------------------- Put
PutEntry(key, value, t) ==
  [timestamp |-> t, key_sz |-> Len(key), value_sz |-> Len(value),
   key |-> key, value |-> value]

\* f_ after `*f_ << cask_entry`.
PutWritten(key, value, t) == StreamWrite(f_, Insert(PutEntry(key, value, t)))

\* The directory and f_ after `f_->flush()`.
PutFlushed(key, value, t) == Flush(files, db_path_, PutWritten(key, value, t))

\* PutKeyDir with the recency test of recovery: an entry that is not older than
\* the new record is kept.
PutKeyDirUpsert(key, value, t) ==
  IF key \in DOMAIN key_dir_ /\ key_dir_[key].timestamp >= t
    THEN key_dir_
    ELSE MapSet(key_dir_, key,
                [file_id |-> db_path_, value_sz |-> Len(value),
                 value_pos |-> f_.pos + ValueOffset(PutEntry(key, value, t)),
                 timestamp |-> t])

\* key_dir_ after Put.
PutKeyDir(key, value, t) ==
  MapSet(key_dir_, key,
         [file_id |-> db_path_, value_sz |-> Len(value),
          value_pos |-> f_.pos + ValueOffset(PutEntry(key, value, t)),
          timestamp |-> t])

\* DeleteKeyDir without the erase: the tombstone is written, the entry stays.
DeleteKeyDirNoErase(key, t) == PutKeyDir(key, kTombstoneValue, t)

\* key_dir_ after Delete of a key that is in it: Put of the marker, then erase.
DeleteKeyDir(key, t) == MapErase(PutKeyDir(key, kTombstoneValue, t), key)

\* --------------------------------------------------------------------- Get
\* What Get(key) returns when the key is in kd and the buffer held byte g before
\* the read: the bytes of the file from value_pos, then what the buffer held.
GetValue(kd, fl, key, g) ==
  LET e == kd[key]
      bytes == fl[e.file_id]
      got == Max(0, Min(e.value_sz, Len(bytes) - e.value_pos))
  IN  [i \in 1..e.value_sz |-> IF i <= got THEN bytes[e.value_pos + i] ELSE g]

\* Get(key) throws MissingKeyException.
GetThrows(kd, key) == key \notin DOMAIN kd

\* Every string Get(key) can return.
GetResults(kd, fl, key) ==
  IF GetThrows(kd, key) THEN {} ELSE {GetValue(kd, fl, key, g) : g \in Garbage}

\* GetKeyDir with operator[] in the place of find(): a key that is not in the
\* table is added with a value-initialized entry.
GetKeyDirIndexed(key) ==
  IF key \in DOMAIN key_dir_ THEN key_dir_
  ELSE MapSet(key_dir_, key,
              [file_id |-> NoPath, value_sz |-> 0, value_pos |-> 0, timestamp |-> 0])

\* key_dir_ after Get(key): find() leaves the table as it is.
GetKeyDir(key) == key_dir_

\* ---------------------------------------------------------------- ListKeys
\* ListKeysResults with the vector constructed with size() elements in the place
\* of reserve(size()): as many empty strings come before the keys.
ListKeysPrefilled(kd) ==
  {[i \in 1..Cardinality(DOMAIN kd) |-> <<>>] \o keys : keys \in Orders(DOMAIN kd)}

\* Every vector ListKeys can return: the keys of the table, in the order the
\* hash table iterates over them.
ListKeysResults(kd) == Orders(DOMAIN kd)

\* ----------------------------------------------------------------- history
NoCall == [op |-> "none", key |-> <<>>, value |-> <<>>, keys |-> <<>>, found |-> FALSE]
Call(op, key, value, keys, found) ==
  [op |-> op, key |-> key, value |-> value, keys |-> keys, found |-> found]

\* The records written so far: those of the calls that returned and those
\* that a stop of the process inside Put left truncated.
RECURSIVE TotalRecs(_)
TotalRecs(ss) ==
  IF Len(ss) = 0 THEN 0
  ELSE Len(ss[1].ops) + (IF ss[1].torn THEN 1 ELSE 0) + TotalRecs(Tail(ss))

\* What the store with KeyDir kd answers on the directory fl: for each key of
\* kd, every string Get can return.
View(kd, fl) == [k \in DOMAIN kd |-> GetResults(kd, fl, k)]

\* The history after a Put or Delete: the operation is added to those of the
\* session, with what the store answers once it has returned.
Logged(op, key, value, t) ==
  [sessions EXCEPT
     ![Len(sessions)].ops =
        Append(@, [op |-> op, key |-> key, value |-> value, timestamp |-> t]),
     ![Len(sessions)].view = View(key_dir_', files')]

\* -------------------------------------------------------------------- Init
Init ==
  /\ files = EmptyMap
  /\ clock = 0
  /\ open = FALSE
  /\ db_path_ = NoPath
  /\ f_ = [pos |-> 0, buf |-> <<>>]
  /\ key_dir_ = EmptyMap
  /\ last = NoCall
  /\ sessions = <<>>

\* ----------------------------------------------------------------- actions
\* Bitcask::Open and the constructor it calls: the directory exists (Open makes
\* it when it is missing), `order` is the order in which directory_iterator
\* gives its files, t the reading of the clock that names the new segment. The
\* constructor opens that path with std::ios::trunc: it is created empty, or
\* emptied when it exists.
Open(order, t) ==
  /\ ~open
  /\ Len(sessions) < MaxOpens
  /\ LET kd == Recover(EmptyMap, files, order, 1)
         path == <<t, kCaskSuffix>>
     IN  /\ files' = [p \in (DOMAIN files) \cup {path} |->
                        IF p = path THEN <<>> ELSE files[p]]
         /\ db_path_' = path
         /\ key_dir_' = kd
         /\ sessions' = Append(sessions, [path |-> path, recovered |-> DOMAIN kd,
                                          ops |-> <<>>, view |-> View(kd, files'),
                                          torn |-> FALSE])
  /\ f_' = [pos |-> 0, buf |-> <<>>]
  /\ clock' = t
  /\ open' = TRUE
  /\ last' = Call("Open", <<>>, <<>>, <<>>, TRUE)

\* Bitcask::Put
Put(key, value, t) ==
  /\ open
  /\ TotalRecs(sessions) < MaxRecs
  /\ files' = PutFlushed(key, value, t).files
  /\ f_' = PutFlushed(key, value, t).f
  /\ key_dir_' = PutKeyDir(key, value, t)
  /\ clock' = t
  /\ last' = Call("Put", key, value, <<>>, TRUE)
  /\ sessions' = Logged("Put", key, value, t)
  /\ UNCHANGED <<open, db_path_>>

\* Bitcask::Get
Get(key) ==
  /\ open
  /\ \/ /\ GetThrows(key_dir_, key)
        /\ last' = Call("Get", key, <<>>, <<>>, FALSE)
     \/ \E value \in GetResults(key_dir_, files, key) :
          last' = Call("Get", key, value, <<>>, TRUE)
  /\ key_dir_' = GetKeyDir(key)
  /\ UNCHANGED <<files, clock, open, db_path_, f_, sessions>>

\* DeleteAbsent without the early return: the tombstone is written for a key
\* that is not in the KeyDir as well.
DeleteAbsentUnchecked(key) ==
  /\ open
  /\ key \notin DOMAIN key_dir_
  /\ TotalRecs(sessions) < MaxRecs
  /\ \E t \in NowToMicros :
       /\ files' = PutFlushed(key, kTombstoneValue, t).files
       /\ f_' = PutFlushed(key, kTombstoneValue, t).f
       /\ key_dir_' = DeleteKeyDir(key, t)
       /\ clock' = t
       /\ sessions' = Logged("Delete", key, kTombstoneValue, t)
  /\ last' = Call("Delete", key, <<>>, <<>>, TRUE)
  /\ UNCHANGED <<open, db_path_>>

\* Bitcask::Delete of a key that is not in the KeyDir.
DeleteAbsent(key) ==
  /\ open
  /\ key \notin DOMAIN key_dir_
  /\ last' = Call("Delete", key, <<>>, <<>>, FALSE)
  /\ UNCHANGED <<files, clock, open, db_path_, f_, key_dir_, sessions>>

\* Bitcask::Delete of a key that is in the KeyDir.
DeletePresent(key, t) ==
  /\ open
  /\ key \in DOMAIN key_dir_
  /\ TotalRecs(sessions) < MaxRecs
  /\ files' = PutFlushed(key, kTombstoneValue, t).files
  /\ f_' = PutFlushed(key, kTombstoneValue, t).f
  /\ key_dir_' = DeleteKeyDir(key, t)
  /\ clock' = t
  /\ last' = Call("Delete", key, <<>>, <<>>, TRUE)
  /\ sessions' = Logged("Delete", key, kTombstoneValue, t)
  /\ UNCHANGED <<open, db_path_>>

\* Bitcask::ListKeys: the keys in the order the hash table gives them.
ListKeys(keys) ==
  /\ open
  /\ last' = Call("ListKeys", <<>>, <<>>, keys, TRUE)
  /\ UNCHANGED <<files, clock, open, db_path_, f_, key_dir_, sessions>>

\* Bitcask::~Bitcask: flush, then the stream is destroyed with the object.
Close ==
  /\ open
  /\ files' = Flush(files, db_path_, f_).files
  /\ open' = FALSE
  /\ f_' = [pos |-> 0, buf |-> <<>>]
  /\ key_dir_' = EmptyMap
  /\ last' = Call("Close", <<>>, <<>>, <<>>, TRUE)
  /\ UNCHANGED <<clock, db_path_, sessions>>

\* The process stops between two calls, without teardown: what the stream
\* still buffers is lost.
Crash ==
  /\ open
  /\ open' = FALSE
  /\ f_' = [pos |-> 0, buf |-> <<>>]
  /\ key_dir_' = EmptyMap
  /\ last' = Call("Crash", <<>>, <<>>, <<>>, TRUE)
  /\ UNCHANGED <<files, clock, db_path_, sessions>>

Next ==
  \/ \E order \in Orders(DOMAIN files), t \in NowToMicros : Open(order, t)
  \/ \E key \in Keys, value \in Values, t \in NowToMicros : Put(key, value, t)
  \/ \E key \in Keys : Get(key)
  \/ \E key \in Keys : DeleteAbsent(key)
  \/ \E key \in Keys, t \in NowToMicros : DeletePresent(key, t)
  \/ \E keys \in ListKeysResults(key_dir_) : ListKeys(keys)
  \/ Close
  \/ Crash

Spec == Init /\ [][Next]_vars

\* ------------------------------------------------- operators on the history
\* The session of the store that was opened last.
Cur == sessions[Len(sessions)]

\* The records appended over all sessions, in the order of the calls.
RECURSIVE AllOps(_)
AllOps(ss) == IF Len(ss) = 0 THEN <<>> ELSE ss[1].ops \o AllOps(Tail(ss))

NoOp == [op |-> "none", key |-> <<>>, value |-> <<>>, timestamp |-> 0]

\* The last of `ops` that is about key k.
LastOn(ops, k) ==
  LET idx == {i \in 1..Len(ops) : ops[i].key = k}
  IN  IF idx = {} THEN NoOp ELSE ops[CHOOSE i \in idx : \A j \in idx : j <= i]

\* What recovery would read from a segment that holds `ops`.
RECURSIVE RecordsOf(_)
RecordsOf(ops) ==
  IF Len(ops) = 0 THEN <<>>
  ELSE <<[timestamp |-> ops[1].timestamp, key |-> ops[1].key, value |-> ops[1].value]>>
         \o RecordsOf(Tail(ops))

RECURSIVE Timestamps(_)
Timestamps(ops) ==
  IF Len(ops) = 0 THEN <<>> ELSE <<ops[1].timestamp>> \o Timestamps(Tail(ops))

\* Every reading of the clock so far: each Open's, then those of its Puts and Deletes.
RECURSIVE Readings(_)
Readings(ss) ==
  IF Len(ss) = 0 THEN <<>>
  ELSE <<ss[1].path[1]>> \o Timestamps(ss[1].ops) \o Readings(Tail(ss))

\* Every reading of the clock was later than the one before.
StrictTimestamps ==
  LET r == Readings(sessions) IN \A i \in 1..(Len(r) - 1) : r[i] < r[i + 1]

\* No Put was given the tombstone marker as its value.
NoMarkerPut ==
  \A i \in 1..Len(AllOps(sessions)) :
    AllOps(sessions)[i].op = "Put" => AllOps(sessions)[i].value # kTombstoneValue

Range(seq) == {seq[i] : i \in 1..Len(seq)}
NoDuplicates(seq) == \A i, j \in 1..Len(seq) : seq[i] = seq[j] => i = j

\* A store has just been opened: no Put or Delete of it has run yet.
JustOpened == open /\ Len(sessions) > 0 /\ Len(Cur.ops) = 0

\* ------------------------------------------------------------------ claims

\* C1. Read-your-write: immediately after Put(k, v) returns, Get(k) returns
\* exactly v, whatever the state of k before and whatever timestamp the clock
\* gave this Put.
C1_ReadYourWrite ==
  last.op = "Put" => GetResults(key_dir_, files, last.key) = {last.value}

\* A Put has just overwritten, with another value and at the same timestamp, the
\* entry that an earlier Put of the same session made for the key.
C1_Witness ==
  /\ last.op = "Put"
  /\ Len(Cur.ops) >= 2
  /\ LET a == Cur.ops[Len(Cur.ops) - 1]
         b == Cur.ops[Len(Cur.ops)]
     IN  /\ a.op = "Put" /\ b.op = "Put"
         /\ a.key = b.key /\ a.value # b.value /\ a.timestamp = b.timestamp

\* C2. After Delete(k) of a key that was in the KeyDir, Get(k) fails with
\* KeyNotFound in the same session for as long as no Put(k, _) follows.
C2_DeleteVisibleAtOnce ==
  /\ \A k \in Keys :
       (open /\ Len(sessions) > 0 /\ LastOn(Cur.ops, k).op = "Delete")
         => GetThrows(key_dir_, k)
  /\ (last.op = "Get" /\ LastOn(Cur.ops, last.key).op = "Delete") => ~last.found

\* Get has just failed on a key that this session put and then deleted.
C2_Witness ==
  /\ last.op = "Get" /\ ~last.found
  /\ LastOn(Cur.ops, last.key).op = "Delete"
  /\ \E i \in 1..Len(Cur.ops) : Cur.ops[i].op = "Put" /\ Cur.ops[i].key = last.key

C4_DeletePersists ==
  (JustOpened /\ StrictTimestamps)
    => \A k \in Keys :
         LastOn(AllOps(sessions), k).op = "Delete"
           => (GetThrows(key_dir_, k)
               /\ \A keys \in ListKeysResults(key_dir_) : k \notin Range(keys))

\* C5. Recovery across segments: after N sessions that each put, into a segment
\* file of their own, one key distinct from all the others, the store opened
\* next returns for each of the N keys the value put.
C5_RecoveryAcrossSegments ==
  LET n == Len(sessions) - 1
  IN  (/\ JustOpened /\ n >= 1
       /\ \A i \in 1..n : Len(sessions[i].ops) = 1 /\ sessions[i].ops[1].op = "Put"
       /\ \A i, j \in 1..n :
            i # j => /\ sessions[i].ops[1].key # sessions[j].ops[1].key
                     /\ sessions[i].path # sessions[j].path)
        => \A i \in 1..n :
             GetResults(key_dir_, files, sessions[i].ops[1].key)
               = {sessions[i].ops[1].value}

\* C6. Every Open creates a segment file that was not in the directory: the
\* number of segment files is the number of Opens so far.
C6_OpenCreatesNewSegment == Cardinality(DOMAIN files) = Len(sessions)

\* The keys whose latest state is a Put: put by this session and not deleted
\* since, or recovered at Open and not touched since.
LiveKeys ==
  {k \in Keys : LET o == LastOn(Cur.ops, k)
                IN  o.op = "Put" \/ (o.op = "none" /\ k \in Cur.recovered)}

\* C7. ListKeys returns exactly the keys for which Get succeeds, each once:
\* the keys whose latest state, recovered at Open or changed in this session,
\* is a Put.
C7_ListKeysAreLiveKeys ==
  /\ (open /\ Len(sessions) > 0)
       => \A keys \in ListKeysResults(key_dir_) :
            /\ NoDuplicates(keys)
            /\ Range(keys) = {k \in Keys : ~GetThrows(key_dir_, k)}
            /\ Range(keys) = LiveKeys
  /\ last.op = "ListKeys" => (NoDuplicates(last.keys) /\ Range(last.keys) = LiveKeys)

\* ListKeys has just returned one key, in a session that put both keys and then
\* deleted the other one.
C7_Witness ==
  /\ last.op = "ListKeys" /\ Len(last.keys) = 1
  /\ LastOn(Cur.ops, last.keys[1]).op = "Put"
  /\ \E k \in Keys : LastOn(Cur.ops, k).op = "Delete"

\* C8. Durability of completed writes: between two operations, and so whenever
\* the process stops without teardown, the active segment on disk holds the
\* record of every Put and Delete that has returned, and the stream buffers
\* nothing; that is what a later Open reads.
C8_CompletedWritesAreOnDisk ==
  Len(sessions) > 0
    => /\ Scan(files[Cur.path], 0) = RecordsOf(Cur.ops)
       /\ f_.buf = <<>>

\* The process has stopped without teardown after a Put and a Delete returned.
C8_Witness ==
  /\ last.op = "Crash"
  /\ Len(Cur.ops) >= 2
  /\ \E i \in 1..Len(Cur.ops) : Cur.ops[i].op = "Delete"

\* C9. Get(k) fails with KeyNotFound exactly when k is not in the KeyDir, and
\* a Get changes neither the KeyDir nor a segment file nor anything else a
\* later operation depends on.
C9_GetIsReadOnly ==
  [][last'.op = "Get" =>
        /\ last'.found <=> (last'.key \in DOMAIN key_dir_)
        /\ UNCHANGED <<key_dir_, files, f_, db_path_, open, clock, sessions>>]_vars

\* Get has just failed on a key that was never written while the other key is
\* in the KeyDir.
C9_Witness ==
  /\ last.op = "Get" /\ ~last.found
  /\ LastOn(AllOps(sessions), last.key).op = "none"
  /\ key_dir_ # EmptyMap

\* The put records of key k in the segments of the directory.
PutRecords(k) ==
  UNION {{r \in Range(Scan(files[p], 0)) : r.key = k /\ r.value # kTombstoneValue}
           : p \in DOMAIN files}

\* C10. Greatest-timestamp invariant: the timestamp of the entry of a key is the
\* greatest timestamp among the put records of the key in the segments. Stated
\* for the runs in which every reading of the clock is later than the one before.
C10_EntryHasGreatestTimestamp ==
  (open /\ StrictTimestamps)
    => \A k \in DOMAIN key_dir_ :
         \A r \in PutRecords(k) : r.timestamp <= key_dir_[k].timestamp

\* C11. Segment visiting order does not matter: whatever the segment files of
\* the directory hold, every order in which Open visits them yields the same
\* KeyDir. Stated for the directories a next Open finds after runs in which
\* every reading of the clock was later than the one before.
C11_VisitingOrderDoesNotMatter ==
  (~open /\ StrictTimestamps)
    => \A o1, o2 \in Orders(DOMAIN files) :
         Recover(EmptyMap, files, o1, 1) = Recover(EmptyMap, files, o2, 1)

\* A Put has just returned: the step of the action Put, which alone leaves
\* last.op = "Put" and a longer history.
PutStep == last'.op = "Put" /\ sessions' # sessions

\* The operation the step has just logged.
NewOp == sessions'[Len(sessions')].ops[Len(sessions'[Len(sessions')].ops)]

\* The location of a record of (key, value, t) appended to the active segment
\* as it is on disk: value offset = record start + header size + key length.
LocationOfNewRecord(key, value, t) ==
  [file_id |-> db_path_, value_sz |-> Len(value),
   value_pos |-> Len(files[db_path_]) + SizeofTimestamp + SizeofSizeT + SizeofSizeT + Len(key),
   timestamp |-> t]

\* The step has appended the record of NewOp, and nothing else, to the active segment.
NewOpAppended ==
  Scan(files'[db_path_], 0)
    = Append(Scan(files[db_path_], 0),
             [timestamp |-> NewOp.timestamp, key |-> NewOp.key, value |-> NewOp.value])

\* C12 (as claimed). Put updates the KeyDir by the upsert rule: when k has an
\* entry whose timestamp is greater than or equal to the new record's, Put
\* leaves the entry of k unchanged; otherwise the entry becomes the location of
\* the new record. The record is appended in both cases.
C12_PutUpsertsKeyDir ==
  [][PutStep =>
       /\ NewOpAppended
       /\ key_dir_' =
            IF NewOp.key \in DOMAIN key_dir_
                 /\ key_dir_[NewOp.key].timestamp >= NewOp.timestamp
              THEN key_dir_
              ELSE MapSet(key_dir_, NewOp.key,
                          LocationOfNewRecord(NewOp.key, NewOp.value, NewOp.timestamp))]_vars

\* C12 (amended). Put replaces the KeyDir entry of k by the location of the new
\* record unconditionally, also when k has an entry whose timestamp is greater
\* than or equal to the new record's (on a tie the last write wins); the
\* record is appended to the segment.
C12_PutReplacesKeyDirEntry ==
  [][PutStep =>
       /\ NewOpAppended
       /\ key_dir_' = MapSet(key_dir_, NewOp.key,
                             LocationOfNewRecord(NewOp.key, NewOp.value, NewOp.timestamp))]_vars

\* A Put has just returned for a key whose entry had the timestamp this Put
\* got, and the entry now points at the new record, not the first of the segment.
C12_Witness ==
  /\ last.op = "Put"
  /\ Len(Cur.ops) >= 2
  /\ Cur.ops[Len(Cur.ops) - 1].op = "Put"
  /\ Cur.ops[Len(Cur.ops) - 1].key = last.key
  /\ Cur.ops[Len(Cur.ops) - 1].timestamp = Cur.ops[Len(Cur.ops)].timestamp
  /\ key_dir_[last.key].timestamp = Cur.ops[Len(Cur.ops)].timestamp
  /\ key_dir_[last.key].value_pos
       > SizeofTimestamp + SizeofSizeT + SizeofSizeT + Len(last.key)

\* C13. Recovery and runtime apply the same recency rule: after one session of
\* Puts and Deletes on an initially empty directory, also when operations get
\* equal timestamps, the store opened next (on a segment of its own) answers
\* every Get as the first session did after its last operation.
C13_RecoveryAgreesWithRuntime ==
  (JustOpened /\ Len(sessions) = 2 /\ sessions[1].path # sessions[2].path)
    => View(key_dir_, files) = sessions[1].view

\* The offsets at which the loop of Open reads a complete record of `bytes`.
RECURSIVE RecordStarts(_, _)
RecordStarts(bytes, pos) ==
  LET e == Extract(bytes, pos)
  IN  IF ~e.ok THEN {} ELSE {pos} \cup RecordStarts(bytes, e.next)

\* Every turn of the while loop that some recovery of the directory takes: for
\* each visiting order, each segment and each record e read at offset s of it,
\* the KeyDir before the turn and the KeyDir after it.
FoldSteps ==
  UNION {UNION {
    LET p == order[i]
        kd0 == Recover(EmptyMap, files, SubSeq(order, 1, i - 1), 1)
    IN  {LET e == Extract(files[p], s)
         IN  [path |-> p, start |-> s, e |-> e,
              before |-> ReplayFile(kd0, p, SubSeq(files[p], 1, s), 0),
              after |-> ReplayFile(kd0, p, SubSeq(files[p], 1, e.next), 0)]
           : s \in RecordStarts(files[p], 0)}
    : i \in 1..Len(order)} : order \in Orders(DOMAIN files)}

\* The entry of key k is not older than the record e.
NotOlder(kd, e) == e.key \in DOMAIN kd /\ kd[e.key].timestamp >= e.timestamp

\* C14. Recovery fold step: when recovery reads a record of key k, (1) if k has
\* an entry whose timestamp is greater than or equal to the record's, the
\* KeyDir is left unchanged, for a put record and for a tombstone alike;
\* (2) otherwise a tombstone removes the entry of k and adds nothing;
\* (3) otherwise a put record sets the entry of k to the record's segment,
\* value offset, value size and timestamp. No other key's entry changes.
C14_RecoveryFoldStep ==
  ~open =>
    \A st \in FoldSteps :
      /\ \A x \in Keys \ {st.e.key} :
           /\ x \in DOMAIN st.after <=> x \in DOMAIN st.before
           /\ x \in DOMAIN st.before => st.after[x] = st.before[x]
      /\ IF NotOlder(st.before, st.e)
           THEN st.after = st.before
           ELSE IF st.e.value = kTombstoneValue
             THEN st.e.key \notin DOMAIN st.after
             ELSE /\ st.e.key \in DOMAIN st.after
                  /\ st.after[st.e.key] =
                       [file_id |-> st.path, value_sz |-> Len(st.e.value),
                        value_pos |-> st.start + SizeofTimestamp + SizeofSizeT
                                        + SizeofSizeT + Len(st.e.key),
                        timestamp |-> st.e.timestamp]

\* The directory is one whose recoveries take every kind of turn: a put record
\* skipped and a tombstone skipped for an entry that is not older, a tombstone
\* that removes an entry, and a put record that replaces an older entry.
C14_Witness ==
  /\ ~open
  /\ \E st \in FoldSteps : NotOlder(st.before, st.e) /\ st.e.value # kTombstoneValue
  /\ \E st \in FoldSteps : NotOlder(st.before, st.e) /\ st.e.value = kTombstoneValue
  /\ \E st \in FoldSteps :
       ~NotOlder(st.before, st.e) /\ st.e.value = kTombstoneValue
         /\ st.e.key \in DOMAIN st.before
  /\ \E st \in FoldSteps :
       ~NotOlder(st.before, st.e) /\ st.e.value # kTombstoneValue
         /\ st.e.key \in DOMAIN st.before

\* ------------------------------------------- callers that pass the marker
\* The values of callers that also pass the reserved marker as a value.
MarkerValues == {<<118>>, kTombstoneValue}

NextMarker ==
  \/ \E order \in Orders(DOMAIN files), t \in NowToMicros : Open(order, t)
  \/ \E key \in Keys, value \in MarkerValues, t \in NowToMicros : Put(key, value, t)
  \/ \E key \in Keys : Get(key)
  \/ \E key \in Keys : DeleteAbsent(key)
  \/ \E key \in Keys, t \in NowToMicros : DeletePresent(key, t)
  \/ \E keys \in ListKeysResults(key_dir_) : ListKeys(keys)
  \/ Close
  \/ Crash

SpecMarker == Init /\ [][NextMarker]_vars

\* C15. A record whose value is the reserved marker is handled as a delete by
\* recovery, whoever wrote it: right after Put(k, marker) Get(k) returns the
\* marker, and in the store opened next a key whose last operation in the
\* session before was Put(k, marker) is not in the KeyDir.
C15_MarkerPutIsADelete ==
  /\ (last.op = "Put" /\ last.value = kTombstoneValue)
       => GetResults(key_dir_, files, last.key) = {kTombstoneValue}
  /\ (JustOpened /\ Len(sessions) >= 2)
       => \A k \in Keys :
            LET o == LastOn(sessions[Len(sessions) - 1].ops, k)
            IN  (o.op = "Put" /\ o.value = kTombstoneValue) => GetThrows(key_dir_, k)

IsPrefix(s, t) == Len(s) <= Len(t) /\ SubSeq(t, 1, Len(s)) = s

\* C16. Segments are append-only: a Put, and a Delete of a present key, appends
\* exactly one record at the end of the active segment; no operation of an open
\* store changes or removes a byte already written to a segment, adds or
\* removes a segment, or writes to a segment other than the active one.
C16_SegmentsAreAppendOnly ==
  [][(open /\ open') =>
       /\ DOMAIN files' = DOMAIN files
       /\ \A p \in DOMAIN files : p # db_path_ => files'[p] = files[p]
       /\ IsPrefix(files[db_path_], files'[db_path_])
       /\ IF sessions' # sessions
            THEN /\ NewOpAppended
                 /\ Len(files'[db_path_]) =
                      Len(files[db_path_]) + SizeofTimestamp + SizeofSizeT + SizeofSizeT
                        + Len(NewOp.key) + Len(NewOp.value)
            ELSE files' = files]_vars

\* A Delete has just appended its tombstone behind an earlier record of the
\* active segment, while the directory holds a segment of an earlier session
\* that is not empty.
C16_Witness ==
  /\ last.op = "Delete" /\ last.found
  /\ Len(Cur.ops) >= 2
  /\ \E p \in DOMAIN files : p # db_path_ /\ Len(files[p]) > 0

\* C17. Every KeyDir entry points at a real value: for every entry of a key k of
\* an open store there is a record of k in the segment the entry names with
\* value offset = record start + header size + length of k, value size =
\* length of the record's value and timestamp = the record's timestamp, and
\* Get(k) returns exactly that record's value.
C17_EntryPointsAtRecord ==
  open =>
    \A k \in DOMAIN key_dir_ :
      /\ key_dir_[k].file_id \in DOMAIN files
      /\ \E s \in RecordStarts(files[key_dir_[k].file_id], 0) :
           LET e == Extract(files[key_dir_[k].file_id], s)
           IN  /\ e.key = k
               /\ key_dir_[k].value_pos
                    = s + SizeofTimestamp + SizeofSizeT + SizeofSizeT + Len(k)
               /\ key_dir_[k].value_sz = Len(e.value)
               /\ key_dir_[k].timestamp = e.timestamp
               /\ GetResults(key_dir_, files, k) = {e.value}

\* In no session were two tombstones written for a key without a Put of the
\* key between them.
OneTombstonePerDelete ==
  \A n \in 1..Len(sessions) :
    \A i, j \in 1..Len(sessions[n].ops) :
      (/\ i < j
       /\ sessions[n].ops[i].op = "Delete" /\ sessions[n].ops[j].op = "Delete"
       /\ sessions[n].ops[i].key = sessions[n].ops[j].key)
        => \E m \in (i + 1)..(j - 1) :
             /\ sessions[n].ops[m].op = "Put"
             /\ sessions[n].ops[m].key = sessions[n].ops[i].key

\* C18. Delete(k) of a key that is not in the KeyDir (never written, or already
\* deleted) is a silent no-op: it appends no record, leaves the KeyDir and
\* everything else of the store unchanged and reads no clock; so deleting a key
\* twice writes one tombstone.
C18_DeleteOfAbsentKeyIsNoOp ==
  [][/\ (last'.op = "Delete" /\ last'.key \notin DOMAIN key_dir_)
          => UNCHANGED <<files, f_, key_dir_, db_path_, open, clock, sessions>>
     /\ OneTombstonePerDelete']_vars

\* Delete has just returned for a key that this session had put and deleted
\* before, while the other key is in the KeyDir.
C18_Witness ==
  /\ last.op = "Delete" /\ ~last.found
  /\ LastOn(Cur.ops, last.key).op = "Delete"
  /\ key_dir_ # EmptyMap

\* ------------------------------------------------------- interrupted writes
\* Where the write of a record of `len` bytes can be cut: inside the timestamp,
\* inside key_sz, inside value_sz, and one byte before the end.
TornCuts(len) == {n \in {4, 12, 20, len - 1} : n < len}

\* The offset at which the loop of Open stops reading `bytes`: the end of the
\* last complete record.
RECURSIVE EndOfRecords(_, _)
EndOfRecords(bytes, pos) ==
  LET e == Extract(bytes, pos)
  IN  IF ~e.ok THEN pos ELSE EndOfRecords(bytes, e.next)

\* The segments that end in a truncated record.
TornSegments(fl) == {p \in DOMAIN fl : EndOfRecords(fl[p], 0) < Len(fl[p])}

\* The process stops inside Bitcask::Put, while the record goes to the file:
\* only the first n bytes of it are on disk, and the call never returns.
InterruptedPut(key, value, t, n) ==
  /\ open
  /\ TotalRecs(sessions) < MaxRecs
  /\ files' = Flush(files, db_path_,
                    StreamWrite(f_, SubSeq(Insert(PutEntry(key, value, t)), 1, n))).files
  /\ clock' = t
  /\ open' = FALSE
  /\ f_' = [pos |-> 0, buf |-> <<>>]
  /\ key_dir_' = EmptyMap
  /\ last' = Call("InterruptedPut", key, value, <<>>, FALSE)
  /\ sessions' = [sessions EXCEPT ![Len(sessions)].torn = TRUE]
  /\ UNCHANGED db_path_

\* The value the callers pass in the runs with interrupted writes: one byte, so
\* that a write can stop after the key and before the value.
TornValues == {<<118>>}

NextTorn ==
  \/ \E order \in Orders(DOMAIN files), t \in NowToMicros : Open(order, t)
  \/ \E key \in Keys, value \in TornValues, t \in NowToMicros : Put(key, value, t)
  \/ \E key \in Keys : Get(key)
  \/ \E key \in Keys : DeleteAbsent(key)
  \/ \E key \in Keys, t \in NowToMicros : DeletePresent(key, t)
  \/ \E keys \in ListKeysResults(key_dir_) : ListKeys(keys)
  \/ Close
  \/ Crash
  \/ \E key \in Keys, value \in TornValues, t \in NowToMicros :
       \E n \in TornCuts(Len(Insert(PutEntry(key, value, t)))) :
         InterruptedPut(key, value, t, n)

SpecTorn == Init /\ [][NextTorn]_vars

\* The directory with the truncated tail of every segment cut off.
Trimmed(fl) == [p \in DOMAIN fl |-> SubSeq(fl[p], 1, EndOfRecords(fl[p], 0))]

\* C19. Tolerance of a truncated tail: an Open of a directory in which a segment
\* ends in a truncated record gives the KeyDir that the complete records of all
\* the segments give, in the order it visits them; no entry lies in the
\* truncated tail of a segment.
C19_TruncatedTailIsEndOfSegment ==
  [][(~open /\ open') =>
       /\ \E order \in Orders(DOMAIN files) :
            key_dir_' = Recover(EmptyMap, Trimmed(files), order, 1)
       /\ \A k \in DOMAIN key_dir_' :
            key_dir_'[k].value_pos + key_dir_'[k].value_sz
              <= EndOfRecords(files[key_dir_'[k].file_id], 0)]_vars

\* A store has just been opened on a directory with a segment that holds a
\* complete record and then a truncated one, and a segment of a later session:
\* its KeyDir has an entry in each of the two segments.
C19_Witness ==
  /\ JustOpened
  /\ \E p \in TornSegments(files) :
       /\ EndOfRecords(files[p], 0) > 0
       /\ \E k \in DOMAIN key_dir_ : key_dir_[k].file_id = p
       /\ \E k \in DOMAIN key_dir_ : key_dir_[k].file_id # p
====
